---- MODULE Spec2Model ----
(***************************************************************************)
(* Model of the Multi-agent Risk Reporter:                                 *)
(*   - the analyzer -> verifier -> composer graph (src/agents/*.py) as it  *)
(*     is driven by the module entry point of src/agents/graph.py;         *)
(*   - the agent functions called directly on a prepared state;            *)
(*   - the incremental reindex of src/retrieval/store.py;                  *)
(*   - the retriever, the chunker, the PII redactor and the parser, each   *)
(*     called on prepared inputs.                                          *)
(* Python values are records tagged by their type in field t, so that a    *)
(* None, a list and a scalar can sit in the same variable.                 *)
(***************************************************************************)
EXTENDS Integers, Sequences, FiniteSets, TLC

VARIABLES
    pc,             \* position of the run: start, a node name, END, exit0, failed
    chunks,         \* state["chunks"]
    candidates,     \* state["candidates"]
    verified,       \* state["verified"]
    report,         \* state["report"]
    analyzerOut,    \* what analyzer_agent returned under its key "items"
    composerInput,  \* the verified collection composer_agent was called with
    failure,        \* which node raised, and why
    respKind,       \* kind of the LLM response each node received
    log,            \* stage events in order
    output,         \* the report written or printed by the entry point
    manifest,       \* <collection>_manifest.json: items, id -> hash
    collection,     \* the Chroma collection: set of stored entries
    lastRun,        \* what the most recent reindex run did
    entry,          \* the entry point of the run: graph.py __main__ or cli.main
    srcOut,         \* what each chunk source gave when it was consulted
    tried,          \* the chunk sources consulted, in order
    retrieval,      \* the call of HybridRetriever.retrieve and its result
    chunking,       \* the call of create_chunks_from_thread and its result
    analyzerIn,     \* the items of the LLM response analyzer_agent deduplicated
    pii,            \* the call of a PIIRedactor method and its result
    parsing         \* the call of a parser function and its result

pipelineVars == <<pc, chunks, candidates, verified, report, analyzerOut,
                  composerInput, failure, respKind, log, output>>
storeVars == <<manifest, collection, lastRun>>
entryVars == <<entry, srcOut, tried>>
retrieverVars == <<retrieval>>
chunkerVars == <<chunking>>
analyzerVars == <<analyzerIn>>
piiVars == <<pii>>
parserVars == <<parsing>>
vars == <<pc, chunks, candidates, verified, report, analyzerOut,
          composerInput, failure, respKind, log, output,
          manifest, collection, lastRun, entry, srcOut, tried,
          retrieval, chunking,
          analyzerIn, pii, parsing>>

---------------------------------------------------------------------------
\* Bounds of the model
MaxChunks == 1      \* chunk sets handed to the graph have 0..MaxChunks chunks
MaxItems == 2       \* an LLM response lists 0..MaxItems items
MaxCands == 2       \* a prepared state holds 0..MaxCands candidates
MaxChunkIds == 2    \* chunk ids of the reindexed chunk sets are 1..MaxChunkIds
MaxDocs == 3        \* the queried collection holds 0..MaxDocs documents, top_k is 1..MaxDocs
MaxUnits == 4       \* a thread's text splits into 0..MaxUnits sentence units
MaxWords == 2       \* a text handed to redact_text holds 0..MaxWords words
MaxRecipients == 1  \* an email record lists 0..MaxRecipients recipients under To and under Cc
MaxFiles == 2       \* the input directory holds 0..MaxFiles transcript files
MaxEmails == 2      \* a transcript holds 0..MaxEmails emails

\* Program constants
MaxEvidence == 6    \* analyzer_agent: min(6, top_k or 6) with the default top_k
CharsPerToken == 4  \* estimate_tokens: len(text) // 4
OverlapUnits == 3   \* create_chunks_from_thread: current_chunk[-3:]

---------------------------------------------------------------------------
\* Python values

PyNone == [t |-> "None", v |-> <<>>]
PyList(s) == [t |-> "list", v |-> s]
IsList(x) == x.t = "list"

Min(a, b) == IF a <= b THEN a ELSE b

SeqsUpTo(S, n) == UNION {[1..k -> S] : k \in 0..n}

\* FlagItem (src/types.py): the fields the stages and the claims read.
\* nev is the number of evidence citations (a missing key and an empty list are
\* both read as zero citations by every reader); status is validation_status.
Threads == {"t1", "t2"}
Confs == {"low", "mid", "high"}
FlagItem(th, ti, vd, n, c) ==
    [t |-> "dict", thread_id |-> th, title |-> ti, label |-> vd.label,
     status |-> vd.status, nev |-> n, confidence |-> c]

\* A list element that is not a mapping (a YAML scalar inside a list).
ScalarItem ==
    [t |-> "str", thread_id |-> "", title |-> "", label |-> "",
     status |-> "", nev |-> 0, confidence |-> ""]

IsDict(it) == it.t = "dict"

\* Items a verifier LLM response can list.
Verified == [label |-> "erb", status |-> "VERIFIED"]
Rejected == [label |-> "none", status |-> "REJECTED"]
Unjudged == [label |-> "erb", status |-> ""]

\* Items a verifier LLM response can list: kept items with or without evidence
\* and with any confidence, rejected items (no evidence, as in the prompt's own
\* example), and elements that are no mappings.
VerifiedPool ==
    {FlagItem(th, "A", Verified, n, c) : th \in Threads, n \in 0..1, c \in Confs}
    \cup {FlagItem(th, "A", Rejected, 0, "low") : th \in Threads}
    \cup {ScalarItem}

\* Items an analyzer LLM response can list.
Titles == {"Db issue", " db issue ", "Other"}
CandidatePool ==
    {FlagItem(th, ti, Unjudged, 1, c) : th \in Threads, ti \in Titles, c \in Confs}
    \cup {ScalarItem}

\* (title or "").strip().lower() on the titles of the pools
NormTitle(ti) ==
    CASE ti = "Db issue" -> "db issue"
      [] ti = " db issue " -> "db issue"
      [] ti = "Other" -> "other"
      [] ti = "A" -> "a"
      [] OTHER -> ti

---------------------------------------------------------------------------
\* What yaml.safe_load makes of an LLM response text.
\*   unparseable   safe_load raised: the stage keeps the raw text (a str)
\*   scalar        a bare scalar
\*   list          a list; elems are its elements
\*   map_key       a mapping with the stage's key (items / verified) -> list elems
\*   map_key_null  a mapping with the stage's key -> null
\*   map_nokey     a mapping without the stage's key; elems is <<the mapping>>
Response(k, es) == [kind |-> k, elems |-> es]

ResponsesOver(pool) ==
    {Response("unparseable", <<>>), Response("scalar", <<>>),
     Response("map_key_null", <<>>)}
    \cup {Response("list", es) : es \in SeqsUpTo(pool, MaxItems)}
    \cup {Response("map_key", es) : es \in SeqsUpTo(pool, MaxItems)}
    \cup {Response("map_nokey", <<it>>) : it \in {x \in pool : IsDict(x)}}

\* The outcome of the external call of a stage: ChatOpenAI(...) may raise when
\* the client is built, model.invoke may raise (error, timeout), or it returns.
NoResponse == Response("none", <<>>)
LLMOutcomes(pool) ==
    {[o |-> "ctor_raise", resp |-> NoResponse],
     [o |-> "invoke_raise", resp |-> NoResponse]}
    \cup {[o |-> "ok", resp |-> r] : r \in ResponsesOver(pool)}

\* Structured data as the stages' prompts ask for it: a mapping or a list of mappings.
WellFormed(r) ==
    /\ r.kind \in {"list", "map_key", "map_nokey"}
    /\ \A i \in DOMAIN r.elems : IsDict(r.elems[i])

---------------------------------------------------------------------------
\* Free text: a sequence of tokens.
EmailTokens == {"jane@co.com"}
PhoneTokens == {"+36 30 123 4567"}
ReportTexts ==
    {<<>>, <<"risk">>, <<"risk", "jane@co.com">>, <<"risk", "[EMAIL]">>,
     <<"+36 30 123 4567">>}

\* PIIRedactor.redact_text on the tokens this model writes.
RedactText(text) ==
    [i \in DOMAIN text |->
        IF text[i] \in EmailTokens THEN "[EMAIL]"
        ELSE IF text[i] \in PhoneTokens THEN "[PHONE]"
        ELSE text[i]]

ComposerOutcomes ==
    {[o |-> "ctor_raise", text |-> <<>>], [o |-> "invoke_raise", text |-> <<>>]}
    \cup {[o |-> "ok", text |-> tx] : tx \in ReportTexts}

---------------------------------------------------------------------------
\* The chunk set handed to the graph.  The loaders return lists; chunks.json is
\* read with json.load and may hold a list or an object, and get_verifier_prompt
\* declares its evidence parameter as a mapping of chunk id to chunk.
ChunkSet(k, n) == [kind |-> k, n |-> n]
ChunkInputs == {ChunkSet(k, n) : k \in {"list", "dict"}, n \in 0..MaxChunks}

\* get_config() returns the AppConfig dataclass, which has no __getitem__.
ConfigKind == "AppConfig"
Subscriptable(cfg) == cfg = "dict"

---------------------------------------------------------------------------
\* analyzer_agent

\* items of the response (analyzer_agent.py lines 90-96)
AnalyzerItems(r) ==
    CASE r.kind = "map_key" -> r.elems
      [] r.kind = "map_key_null" -> <<>>          \* response["items"] or []
      [] r.kind = "list" -> r.elems
      [] r.kind = "map_nokey" -> r.elems          \* [response]
      [] OTHER -> <<>>

DedupKey_RawTitle(it) == <<it.thread_id, it.title>>
DedupKey(it) == <<it.thread_id, NormTitle(it.title)>>

\* basic dedup by (thread_id, title): the first item of each key is kept
RECURSIVE Dedup(_, _)
Dedup(items, aggregated) ==
    IF items = <<>> THEN aggregated
    ELSE LET it == Head(items)
             seen == \E i \in DOMAIN aggregated : DedupKey(aggregated[i]) = DedupKey(it)
         IN Dedup(Tail(items), IF seen THEN aggregated ELSE Append(aggregated, it))

\* get_analyzer_prompt(win, project_context, config) subscripts config
GetAnalyzerPromptRaises(cfg) == ~Subscriptable(cfg)

\* Result of calling a stage: it raised (and why) or returned ret; got says what
\* the external call gave the stage: "none" (not called), "raise", or the
\* response, "wellformed" or "malformed".
Raised(cause, got) == [raised |-> TRUE, cause |-> cause, ret |-> PyNone, got |-> got]
Returned(val, got) == [raised |-> FALSE, cause |-> "", ret |-> val, got |-> got]
Got(r) == IF WellFormed(r) THEN "wellformed" ELSE "malformed"

AnalyzerAgent(ch, cfg, llm) ==
    LET nBase == IF ch.kind = "list" THEN Min(ch.n, MaxEvidence) ELSE ch.n
        hasWindow == ch.kind = "list" /\ nBase > 0
        items == AnalyzerItems(llm.resp)
    IN  IF llm.o = "ctor_raise" THEN Raised("client", "none")
        ELSE IF ~hasWindow THEN Returned(PyList(<<>>), "none")
        ELSE IF GetAnalyzerPromptRaises(cfg) THEN Raised("prompt", "none")
        ELSE IF llm.o = "invoke_raise" THEN Raised("invoke", "raise")
        ELSE IF \E i \in DOMAIN items : ~IsDict(items[i])
             THEN Raised("schema", Got(llm.resp))      \* it.get: AttributeError
        ELSE Returned(PyList(Dedup(items, <<>>)), Got(llm.resp))

---------------------------------------------------------------------------
\* verifier_agent

\* get_verifier_prompt(candidates, chunks): candidate.get(...) on every
\* candidate, then full_evidence.items() on the chunk set
GetVerifierPromptRaises(cands, ch) ==
    \/ \E i \in DOMAIN cands : ~IsDict(cands[i])
    \/ ch.kind # "dict"

\* "Extract verified items" (verifier_agent.py lines 55-63)
VerifierExtract(r) ==
    CASE r.kind = "map_key" -> PyList(r.elems)     \* data["verified"]
      [] r.kind = "map_key_null" -> PyNone         \* data["verified"] is None
      [] r.kind = "list" -> PyList(r.elems)
      [] r.kind = "map_nokey" -> PyList(r.elems)   \* [data]
      [] OTHER -> PyList(<<>>)

VerifierAgent(cands, ch, llm) ==
    IF llm.o = "ctor_raise" THEN Raised("client", "none")
    ELSE IF GetVerifierPromptRaises(cands, ch) THEN Raised("prompt", "none")
    ELSE IF llm.o = "invoke_raise" THEN Raised("invoke", "raise")
    ELSE Returned(VerifierExtract(llm.resp), Got(llm.resp))

---------------------------------------------------------------------------
\* composer_agent

\* get_composer_prompt(state["verified"], ...) enumerates the collection and
\* calls risk.get on every element; so does the loop that builds computed_rows.
ComposerPromptRaises(ver) ==
    \/ ~IsList(ver)
    \/ \E i \in DOMAIN ver.v : ~IsDict(ver.v[i])

\* The report is the LLM's text as returned.
ComposerReport(text) == text

ComposerAgent(ver, llm) ==
    IF llm.o = "ctor_raise" THEN Raised("client", "none")
    ELSE IF ComposerPromptRaises(ver) THEN Raised("prompt", "none")
    ELSE IF llm.o = "invoke_raise" THEN Raised("invoke", "raise")
    ELSE Returned(ComposerReport(llm.text), "text")

---------------------------------------------------------------------------
\* The compiled graph (create_graph) and the entry point that drives it.

Nodes == {"analyzer", "verifier", "composer"}
Edges == {<<"START", "analyzer">>, <<"analyzer", "verifier">>,
          <<"verifier", "composer">>, <<"composer", "END">>}

NextNode_SkipVerifier(n) ==
    CASE n = "START" -> "analyzer" [] n = "analyzer" -> "composer"
      [] n = "verifier" -> "composer" [] OTHER -> "END"

NextNode(n) == CHOOSE m \in Nodes \cup {"END"} : <<n, m>> \in Edges

\* The channels of OverallState: a key a node returns that is no channel is
\* not written to the state.
Channels == {"messages", "chunks", "project_context", "candidates", "verified", "report"}

\* The key under which each node returns its result (AnalyzerResponse,
\* VerifierResponse, ComposerResponse).
ReturnKey(n) ==
    CASE n = "analyzer" -> "items" [] n = "verifier" -> "verified" [] OTHER -> "report"

Written(n, channel) == ReturnKey(n) = channel /\ channel \in Channels

NoFailure == [node |-> "", cause |-> ""]
NoRetrieval == [called |-> FALSE]
NoChunking == [called |-> FALSE]
NoRedaction == [called |-> FALSE]
NoParsing == [called |-> FALSE]
Unwritten == [written |-> FALSE, text |-> <<>>]
Unset == [t |-> "unset", v |-> <<>>]

---------------------------------------------------------------------------
\* The chunk sources of the entry points, in the order they are consulted.
Sources == <<"retrieval", "chroma", "json">>

\* What a source gave: it raised, it returned a value, the file is missing
\* (json only), or it was not consulted.
Outcome(o, val) == [o |-> o, val |-> val]
EmptyList == ChunkSet("list", 0)
Unused == Outcome("unused", EmptyList)
NoSources == [s \in {"retrieval", "chroma", "json"} |-> Unused]

\* retriever.retrieve and _load_all_chunks_from_chroma return lists;
\* json.load gives whatever chunks.json holds, a list or an object.
ListOutcomes ==
    {Unused, Outcome("raise", EmptyList)}
    \cup {Outcome("value", ChunkSet("list", n)) : n \in 0..MaxChunks}
JsonOutcomes ==
    {Unused, Outcome("raise", EmptyList), Outcome("missing", EmptyList)}
    \cup {Outcome("value", ch) : ch \in ChunkInputs}
SourceOutcomes ==
    [retrieval : ListOutcomes, chroma : ListOutcomes, json : JsonOutcomes]

\* Python's "not chunks": an empty list or an empty dict
Falsy(ch) == ch.n = 0

\* "if isinstance(topk, list) and len(topk) > 0: chunks = topk", else []
AfterRetrieval(out) ==
    IF out.retrieval.o = "value" /\ out.retrieval.val.kind = "list"
       /\ out.retrieval.val.n > 0
    THEN out.retrieval.val ELSE EmptyList

\* "if not chunks: try: chunks = _load_all_chunks_from_chroma(...) except: chunks = []"
AfterChroma(out) ==
    IF ~Falsy(AfterRetrieval(out)) THEN AfterRetrieval(out)
    ELSE IF out.chroma.o = "value" THEN out.chroma.val ELSE EmptyList

\* "if not chunks: ... if os.path.exists(chunks_file): chunks = json.load(f)"
AfterJson(out) ==
    IF ~Falsy(AfterChroma(out)) THEN AfterChroma(out)
    ELSE IF out.json.o = "value" THEN out.json.val
    ELSE IF out.json.o = "missing" THEN AfterChroma(out)
    ELSE EmptyList

SelectedChunks(out) == AfterJson(out)

TriedSources(out) ==
    <<"retrieval">>
    \o (IF Falsy(AfterRetrieval(out)) THEN <<"chroma">> ELSE <<>>)
    \o (IF Falsy(AfterChroma(out)) THEN <<"json">> ELSE <<>>)

\* A source has an outcome exactly when it is consulted.
Consistent(out) ==
    \A i \in DOMAIN Sources :
        (out[Sources[i]].o = "unused") <=>
            ~(\E j \in DOMAIN TriedSources(out) : TriedSources(out)[j] = Sources[i])

\* The names graph.py defines and the names cli.py imports from it.
GraphExports == {"create_graph", "_load_all_chunks_from_chroma", "graph"}
CliImports == {"_load_chunks_from_chroma", "graph"}
CliImportRaises == ~(CliImports \subseteq GraphExports)

Event(n, e) == [node |-> n, ev |-> e]
Events(n, res) == <<Event(n, "start"), Event(n, IF res.raised THEN "raise" ELSE "return")>>

Init ==
    /\ pc = "start"
    /\ chunks = ChunkSet("list", 0)
    /\ candidates = <<>>
    /\ verified = PyList(<<>>)
    /\ report = <<>>
    /\ analyzerOut = Unset
    /\ composerInput = Unset
    /\ failure = NoFailure
    /\ respKind = [n \in Nodes |-> "none"]
    /\ log = <<>>
    /\ output = Unwritten
    /\ manifest = <<>>
    /\ collection = {}
    /\ lastRun = <<>>
    /\ entry = "none"
    /\ srcOut = NoSources
    /\ tried = <<>>
    /\ retrieval = NoRetrieval
    /\ chunking = NoChunking
    /\ analyzerIn = <<>>
    /\ pii = NoRedaction
    /\ parsing = NoParsing

\* The entry point of graph.py: it selects the chunk set through the chain of
\* sources and calls graph.invoke(initial_state) with it, whatever it holds.
Invoke ==
    /\ pc = "start"
    /\ \E out \in SourceOutcomes :
         /\ Consistent(out)
         /\ srcOut' = out
         /\ tried' = TriedSources(out)
         /\ chunks' = SelectedChunks(out)
    /\ entry' = "graph_main"
    /\ candidates' = <<>>
    /\ verified' = PyList(<<>>)
    /\ report' = <<>>
    /\ pc' = NextNode("START")
    /\ UNCHANGED <<analyzerOut, composerInput, failure, respKind, log, output>>
    /\ UNCHANGED <<storeVars, retrieverVars, chunkerVars,
                 analyzerVars, piiVars, parserVars>>

\* The console script: importing src/cli.py runs
\* "from src.agents.graph import _load_chunks_from_chroma, graph"; graph.py
\* defines _load_all_chunks_from_chroma and no _load_chunks_from_chroma, so the
\* import raises ImportError before main() is reached.
CliMain ==
    /\ pc = "start"
    /\ entry' = "cli"
    /\ pc' = IF CliImportRaises THEN "failed" ELSE NextNode("START")
    /\ failure' = IF CliImportRaises THEN [node |-> "cli", cause |-> "import"] ELSE failure
    /\ UNCHANGED <<chunks, candidates, verified, report, analyzerOut,
                   composerInput, respKind, log, output, srcOut, tried>>
    /\ UNCHANGED <<storeVars, retrieverVars, chunkerVars,
                 analyzerVars, piiVars, parserVars>>

\* What every node's step does with the result of its function.
Advance(n, res) ==
    /\ pc' = IF res.raised THEN "failed" ELSE NextNode(n)
    /\ failure' = IF res.raised THEN [node |-> n, cause |-> res.cause] ELSE failure
    /\ respKind' = [respKind EXCEPT ![n] = res.got]
    /\ log' = log \o Events(n, res)

AnalyzerStep ==
    /\ pc = "analyzer"
    /\ \E llm \in LLMOutcomes(CandidatePool) :
         LET res == AnalyzerAgent(chunks, ConfigKind, llm) IN
         /\ Advance("analyzer", res)
         /\ analyzerOut' = IF res.raised THEN analyzerOut ELSE res.ret
         /\ candidates' = IF ~res.raised /\ Written("analyzer", "candidates")
                          THEN res.ret.v ELSE candidates
    /\ UNCHANGED <<chunks, verified, report, composerInput, output>>
    /\ UNCHANGED <<entryVars, storeVars, retrieverVars, chunkerVars,
                 analyzerVars, piiVars, parserVars>>

VerifierStep ==
    /\ pc = "verifier"
    /\ \E llm \in LLMOutcomes(VerifiedPool) :
         LET res == VerifierAgent(candidates, chunks, llm) IN
         /\ Advance("verifier", res)
         /\ verified' = IF ~res.raised /\ Written("verifier", "verified")
                        THEN res.ret ELSE verified
    /\ UNCHANGED <<chunks, candidates, report, analyzerOut, composerInput, output>>
    /\ UNCHANGED <<entryVars, storeVars, retrieverVars, chunkerVars,
                 analyzerVars, piiVars, parserVars>>

ComposerStep ==
    /\ pc = "composer"
    /\ \E llm \in ComposerOutcomes :
         LET res == ComposerAgent(verified, llm) IN
         /\ Advance("composer", res)
         /\ composerInput' = IF llm.o = "ctor_raise" THEN composerInput ELSE verified
         /\ report' = IF ~res.raised /\ Written("composer", "report")
                      THEN res.ret ELSE report
    /\ UNCHANGED <<chunks, candidates, verified, analyzerOut, output>>
    /\ UNCHANGED <<entryVars, storeVars, retrieverVars, chunkerVars,
                 analyzerVars, piiVars, parserVars>>

\* graph.invoke returned: the entry point writes or prints result["report"].
EmitReport ==
    /\ pc = "END"
    /\ output' = [written |-> TRUE, text |-> report]
    /\ pc' = "exit0"
    /\ UNCHANGED <<chunks, candidates, verified, report, analyzerOut,
                   composerInput, failure, respKind, log>>
    /\ UNCHANGED <<entryVars, storeVars, retrieverVars, chunkerVars,
                 analyzerVars, piiVars, parserVars>>

Next == Invoke \/ CliMain \/ AnalyzerStep \/ VerifierStep \/ ComposerStep \/ EmitReport

Spec == Init /\ [][Next]_vars

---------------------------------------------------------------------------
\* Claims about a run of the graph (specification Spec)

Canon ==
    <<Event("analyzer", "start"), Event("analyzer", "return"),
      Event("verifier", "start"), Event("verifier", "return"),
      Event("composer", "start"), Event("composer", "return")>>

Started(n) == \E i \in DOMAIN log : log[i] = Event(n, "start")

\* C1: the stages run in the order analyzer, verifier, composer, each at most
\* once and each exactly once in a run that reaches the end of the graph; a
\* stage starts only when the stage before it has returned, and a stage that
\* raises is the last one to run.
C1_StageOrder ==
    /\ Len(log) <= Len(Canon)
    /\ \A i \in DOMAIN log :
         /\ log[i].node = Canon[i].node
         /\ \/ log[i].ev = Canon[i].ev
            \/ log[i].ev = "raise" /\ Canon[i].ev = "return" /\ i = Len(log)
    /\ pc \in {"END", "exit0"} => log = Canon
    /\ pc \in Nodes => /\ ~Started(pc)
                       /\ \A n \in Nodes : <<n, pc>> \in Edges => log[Len(log)] = Event(n, "return")

C1_Witness == pc = "exit0" /\ log = Canon

\* C2: every item of the verified collection composer_agent is called with
\* has at least one evidence citation.
C2_EvidenceGate ==
    IsList(composerInput) =>
        \A i \in DOMAIN composerInput.v :
            IsDict(composerInput.v[i]) => composerInput.v[i].nev >= 1

IsRejected(it) == it.status = "REJECTED" \/ it.label = "none"

\* C3: no item the verifier marked rejected is in the verified collection
\* composer_agent is called with.
C3_OnlyNonRejected ==
    IsList(composerInput) =>
        \A i \in DOMAIN composerInput.v :
            IsDict(composerInput.v[i]) => ~IsRejected(composerInput.v[i])

CallRaised(n) == respKind[n] = "raise" \/ (failure.node = n /\ failure.cause = "client")
CallMalformed(n) == respKind[n] = "malformed"

Terminal(n) ==
    /\ pc = "failed"
    /\ ~output.written
    /\ \A m \in Nodes : <<n, m>> \in Edges => ~Started(m)

\* C5: an exception, a timeout or a malformed response of the
\* external call of the verifier or the composer ends the run: no later stage
\* runs and no report is written or printed.
C5_FailureIsTerminal ==
    /\ (CallRaised("verifier") \/ CallMalformed("verifier")) => Terminal("verifier")
    /\ CallRaised("composer") => Terminal("composer")

\* C6: a stage whose LLM response is no valid structured data returns a list
\* of zero items without raising, and the stage after it does not fail on
\* reading that output.
C6_MalformedIsZeroItems ==
    /\ CallMalformed("analyzer") =>
         /\ failure.node # "analyzer"
         /\ analyzerOut = PyList(<<>>)
    /\ CallMalformed("verifier") =>
         /\ failure.node # "verifier"
         /\ verified = PyList(<<>>)
         /\ ~(failure.node = "composer" /\ failure.cause = "prompt")

\* C7: the analyzer's output has at least 1 and at most 3 candidates.
C7_OneToThreeCandidates ==
    IsList(analyzerOut) => Len(analyzerOut.v) \in 1..3

\* C8: the report composer_agent returns, and the report the entry point
\* emits, hold no text that redact_text would still change.
C8_ReportRedacted ==
    /\ report = RedactText(report)
    /\ output.written => output.text = RedactText(output.text)

---------------------------------------------------------------------------
\* verifier_agent called on a prepared state, as tests/test_agents.py does
\* (specification SpecVerifier).

PreparedCandidates ==
    {FlagItem(th, "Db issue", Unjudged, 1, c) : th \in Threads, c \in Confs}

InitVerifier ==
    /\ pc = "call"
    /\ chunks \in ChunkInputs
    /\ candidates \in SeqsUpTo(PreparedCandidates, MaxCands)
    /\ verified = PyList(<<>>)
    /\ report = <<>>
    /\ analyzerOut = Unset
    /\ composerInput = Unset
    /\ failure = NoFailure
    /\ respKind = [n \in Nodes |-> "none"]
    /\ log = <<>>
    /\ output = Unwritten
    /\ manifest = <<>>
    /\ collection = {}
    /\ lastRun = <<>>
    /\ entry = "none"
    /\ srcOut = NoSources
    /\ tried = <<>>
    /\ retrieval = NoRetrieval
    /\ chunking = NoChunking
    /\ analyzerIn = <<>>
    /\ pii = NoRedaction
    /\ parsing = NoParsing

CallVerifier ==
    /\ pc = "call"
    /\ \E llm \in LLMOutcomes(VerifiedPool) :
         LET res == VerifierAgent(candidates, chunks, llm) IN
         /\ pc' = IF res.raised THEN "raised" ELSE "returned"
         /\ failure' = IF res.raised THEN [node |-> "verifier", cause |-> res.cause]
                       ELSE failure
         /\ respKind' = [respKind EXCEPT !["verifier"] = res.got]
         /\ verified' = IF res.raised THEN verified ELSE res.ret
    /\ UNCHANGED <<chunks, candidates, report, analyzerOut, composerInput, log, output>>
    /\ UNCHANGED <<entryVars, storeVars, retrieverVars, chunkerVars,
                 analyzerVars, piiVars, parserVars>>

NextVerifier == CallVerifier

SpecVerifier == InitVerifier /\ [][NextVerifier]_vars

Rank(c) == CASE c = "low" -> 1 [] c = "mid" -> 2 [] c = "high" -> 3 [] OTHER -> 0

SetMax(S) == CHOOSE x \in S : \A y \in S : y <= x

\* The candidates a verified item corresponds to: those of its thread (the
\* verifier merges candidates of one thread into one item).
SourcesOf(v) == {j \in DOMAIN candidates : candidates[j].thread_id = v.thread_id}

\* C4: an item of the verifier's output never has a higher confidence tier
\* than the highest tier among the candidates it corresponds to.
C4_NoConfidenceUpgrade ==
    (pc = "returned" /\ IsList(verified)) =>
        \A i \in DOMAIN verified.v :
            LET v == verified.v[i] IN
            (IsDict(v) /\ SourcesOf(v) # {}) =>
                Rank(v.confidence) <=
                    SetMax({Rank(candidates[j].confidence) : j \in SourcesOf(v)})

---------------------------------------------------------------------------
\* Incremental reindex: process_chunks_to_vectorstore (specification SpecStore).
\* chunks.json is the chunker's output: a list of chunks with distinct,
\* non-empty ids, here a function from the ids present to their content.
\* The manifest variable is the "hash" field of the manifest's items; their
\* "updated_at" field is set to the time of the run for every chunk of the file.
\* The specification holds the successful runs with incremental=True (the
\* default): a run whose embedding call fails raises before the collection or
\* the manifest is written, which leaves both as they were.

ChunkIds == 1..MaxChunkIds
Contents ==
    {[text |-> "x", meta |-> "m1"], [text |-> "y", meta |-> "m1"],
     [text |-> "x", meta |-> "m2"]}
ChunkFiles == UNION {[S -> Contents] : S \in SUBSET ChunkIds}

\* VectorStore.compute_chunk_hash: sha256 over text, "|" and the metadata
\* serialised with sorted keys; distinct (text, metadata) give distinct hashes.
ChunkHash(content) == <<content.text, content.meta>>

\* generate_embeddings: a function of the text
Embed(text) == <<"emb", text>>

Entry(id, content) ==
    [id |-> id, text |-> content.text, meta |-> content.meta, emb |-> Embed(content.text)]

\* collection.upsert: the entries of the given ids replace the stored ones
Upsert(coll, file, ids) ==
    {e \in coll : e.id \notin ids} \cup {Entry(id, file[id]) : id \in ids}

\* collection.delete(ids=...)
Delete(coll, ids) == {e \in coll : e.id \notin ids}

NeedsUpsert_Always(incremental, items, id, content) == TRUE

NeedsUpsert_NewOnly(incremental, items, id, content) ==
    (~incremental) \/ (id \notin DOMAIN items)

\* "Build plan: new or changed chunks": prev = items_manifest.get(cid)
NeedsUpsert(incremental, items, id, content) ==
    \/ ~incremental
    \/ id \notin DOMAIN items
    \/ items[id] # ChunkHash(content)

\* "Optional prune of missing ids"
ToDelete(incremental, prune, items, file) ==
    IF incremental /\ prune THEN DOMAIN items \ DOMAIN file ELSE {}

\* "Update and persist manifest": every chunk of the file is recorded, the
\* entries of other ids stay.
UpdatedManifest(items, file) ==
    [id \in DOMAIN items \cup DOMAIN file |->
        IF id \in DOMAIN file THEN ChunkHash(file[id]) ELSE items[id]]

NoRun ==
    [ran |-> FALSE, incremental |-> FALSE, prune |-> FALSE,
     file |-> <<>>, embedded |-> {}, upserted |-> {}, deleted |-> {},
     itemsBefore |-> <<>>, collBefore |-> {}, repeat |-> FALSE]

InitStore ==
    /\ pc = "store"
    /\ chunks = ChunkSet("list", 0)
    /\ candidates = <<>>
    /\ verified = PyList(<<>>)
    /\ report = <<>>
    /\ analyzerOut = Unset
    /\ composerInput = Unset
    /\ failure = NoFailure
    /\ respKind = [n \in Nodes |-> "none"]
    /\ log = <<>>
    /\ output = Unwritten
    /\ manifest = <<>>
    /\ collection = {}
    /\ lastRun = NoRun
    /\ entry = "none"
    /\ srcOut = NoSources
    /\ tried = <<>>
    /\ retrieval = NoRetrieval
    /\ chunking = NoChunking
    /\ analyzerIn = <<>>
    /\ pii = NoRedaction
    /\ parsing = NoParsing

\* One run of process_chunks_to_vectorstore on the current chunks.json.
Reindex(file, incremental, prune) ==
    LET items == IF incremental THEN manifest ELSE <<>>
        toUpsert == {id \in DOMAIN file : NeedsUpsert(incremental, items, id, file[id])}
        toDelete == ToDelete(incremental, prune, items, file)
        repeat == /\ lastRun.ran /\ lastRun.incremental /\ incremental
                  /\ lastRun.file = file /\ lastRun.prune = prune
    IN  /\ pc = "store"
        /\ manifest' = UpdatedManifest(items, file)
        /\ collection' = Delete(Upsert(collection, file, toUpsert), toDelete)
        /\ lastRun' = [ran |-> TRUE, incremental |-> incremental,
                       prune |-> prune, file |-> file,
                       embedded |-> toUpsert, upserted |-> toUpsert,
                       deleted |-> toDelete,
                       itemsBefore |-> manifest, collBefore |-> collection,
                       repeat |-> repeat]
        /\ UNCHANGED <<pipelineVars, entryVars, retrieverVars, chunkerVars,
                     analyzerVars, piiVars, parserVars>>

ReindexRun ==
    \E file \in ChunkFiles, prune \in BOOLEAN : Reindex(file, TRUE, prune)

NextStore == ReindexRun

SpecStore == InitStore /\ [][NextStore]_vars

EntriesOf(coll, id) == {e \in coll : e.id = id}

\* C9: a second incremental run in a row on the same chunk set embeds nothing,
\* upserts nothing, and leaves the manifest's id-to-hash table and the stored
\* entries as the first run left them, with at most one entry per id.
C9_IdempotentReindex ==
    lastRun.repeat =>
        /\ lastRun.embedded = {}
        /\ lastRun.upserted = {}
        /\ manifest = lastRun.itemsBefore
        /\ collection = lastRun.collBefore
        /\ \A id \in ChunkIds : Cardinality(EntriesOf(collection, id)) <= 1

C9_Witness ==
    /\ lastRun.repeat
    /\ lastRun.file # <<>>
    /\ \E id \in DOMAIN lastRun.file : EntriesOf(collection, id) # {}

\* C10: in an incremental run a chunk is embedded and upserted if and only if
\* its id has no manifest entry or the manifest holds another hash for it; the
\* stored entries of the other chunks are not written.
C10_UpsertIffNewOrChanged ==
    (lastRun.ran /\ lastRun.incremental) =>
        \A id \in DOMAIN lastRun.file :
            LET newOrChanged ==
                    \/ id \notin DOMAIN lastRun.itemsBefore
                    \/ lastRun.itemsBefore[id] #
                           <<lastRun.file[id].text, lastRun.file[id].meta>>
            IN  /\ (id \in lastRun.embedded) <=> newOrChanged
                /\ (id \in lastRun.upserted) <=> newOrChanged
                /\ newOrChanged => EntriesOf(collection, id) = {Entry(id, lastRun.file[id])}
                /\ ~newOrChanged =>
                       EntriesOf(collection, id) = EntriesOf(lastRun.collBefore, id)

C10_Witness ==
    /\ lastRun.ran /\ lastRun.incremental
    /\ \E id \in DOMAIN lastRun.file :
         /\ id \in DOMAIN lastRun.itemsBefore
         /\ lastRun.itemsBefore[id] # ChunkHash(lastRun.file[id])
         /\ id \in lastRun.upserted
    /\ \E id \in DOMAIN lastRun.file :
         /\ id \in DOMAIN lastRun.itemsBefore
         /\ id \notin lastRun.upserted

\* C11: after an incremental run with pruning, the manifest has no entry whose
\* chunk id is absent from the chunk set of that run.
C11_PrunedManifest ==
    (lastRun.ran /\ lastRun.incremental /\ lastRun.prune) =>
        DOMAIN manifest \subseteq DOMAIN lastRun.file

---------------------------------------------------------------------------
\* Claims about the entry points' chain of chunk sources (specification Spec)

NonEmptyList(o) == o.o = "value" /\ o.val.kind = "list" /\ o.val.n > 0
FailedOrEmpty(o) == o.o \in {"raise", "missing"} \/ (o.o = "value" /\ o.val.n = 0)
EarlierAllFailed(i) == \A j \in 1..(i - 1) : FailedOrEmpty(srcOut[Sources[j]])

ChainFollowed ==
    /\ Len(tried) >= 1
    /\ \A i \in DOMAIN tried : tried[i] = Sources[i] /\ EarlierAllFailed(i)
    /\ \A i \in DOMAIN Sources : EarlierAllFailed(i) => i \in DOMAIN tried
    /\ \A i \in DOMAIN Sources :
         (EarlierAllFailed(i) /\ NonEmptyList(srcOut[Sources[i]])) =>
             chunks = srcOut[Sources[i]].val

\* C14: in a run of either entry point the chunk sources are consulted in the
\* order retrieval, chroma, json, a source only when every earlier one raised
\* or gave nothing, and the chunk set of the run is the result of the first
\* source that returned a non-empty list.
C14_FallbackChain == entry # "none" => ChainFollowed

AllSourcesFailed ==
    \A i \in DOMAIN Sources : FailedOrEmpty(srcOut[Sources[i]])

\* C15: when every chunk source raised or gave nothing, no stage of the graph
\* runs, no report is written and the run ends in failure.
C15_AbortOnNoChunks ==
    AllSourcesFailed =>
        /\ pc = "failed"
        /\ log = <<>>
        /\ ~output.written

---------------------------------------------------------------------------
\* HybridRetriever.retrieve called once on a collection (specification
\* SpecRetriever).  The documents of the collection are numbered in the order
\* of their distance to the query: document i is the i-th nearest.  Of a
\* document the keyword scan reads whether it contains a term of the query (qt)
\* and whether it contains a prefilter keyword (kw).  The constructor replaces
\* an empty prefilter_keywords by its default list, so the list is never empty.

Docs == [qt : BOOLEAN, kw : BOOLEAN]
Collections == UNION {[1..n -> Docs] : n \in 0..MaxDocs}
TopKs == 1..MaxDocs

KeywordPrefilter_Reraise(coll, queryKw, getOk) ==
    IF ~getOk THEN [raised |-> TRUE, ids |-> {}]
    ELSE [raised |-> FALSE,
          ids |-> {i \in DOMAIN coll : coll[i].qt \/ coll[i].kw \/ queryKw}]

\* keyword_prefilter: the ids of the documents that contain a query term or a
\* prefilter keyword, every id when the query itself names a prefilter
\* keyword (queryKw); [] when collection.get raises.
KeywordPrefilter(coll, queryKw, getOk) ==
    IF ~getOk THEN [raised |-> FALSE, ids |-> {}]
    ELSE [raised |-> FALSE,
          ids |-> {i \in DOMAIN coll : coll[i].qt \/ coll[i].kw \/ queryKw}]

\* collection.query(n_results=top_k): the top_k nearest documents, nearest first
Query(coll, k) == [i \in 1..Min(k, Len(coll)) |-> [id |-> i, distance |-> i]]

\* "If we have candidate IDs, filter the results": the hits whose id is a
\* candidate, in order; no hit at all when none is.
FilterHits(hits, cands, k) ==
    IF cands = {} THEN hits
    ELSE LET kept == SelectSeq(hits, LAMBDA h : h.id \in cands)
         IN  SubSeq(kept, 1, Min(Len(kept), k))

\* "Format results"
Format(hits) ==
    [i \in DOMAIN hits |->
        [id |-> hits[i].id, score |-> 1 - hits[i].distance, rank |-> i]]

\* semantic_search: [] when the query embedding or the index query raises
SemanticSearch(coll, cands, k, embOk, queryOk) ==
    IF ~embOk \/ ~queryOk THEN <<>>
    ELSE Format(FilterHits(Query(coll, k), cands, k))

\* results.sort(key=score, reverse=True): stable, highest score first
RECURSIVE SortByScore(_)
SortByScore(rs) ==
    IF rs = <<>> THEN <<>>
    ELSE LET best == CHOOSE i \in DOMAIN rs :
                        \A j \in DOMAIN rs :
                            \/ rs[j].score < rs[i].score
                            \/ (rs[j].score = rs[i].score /\ i <= j)
             rest == [j \in 1..(Len(rs) - 1) |-> IF j < best THEN rs[j] ELSE rs[j + 1]]
         IN  <<rs[best]>> \o SortByScore(rest)

\* retrieve: an exception inside its try block gives []
Retrieve(coll, queryKw, k, getOk, embOk, queryOk) ==
    LET pre == KeywordPrefilter(coll, queryKw, getOk)
        res == IF pre.raised THEN <<>>
               ELSE SortByScore(SemanticSearch(coll, pre.ids, k, embOk, queryOk))
    IN  [called |-> TRUE, coll |-> coll, queryKw |-> queryKw, k |-> k,
         getOk |-> getOk, embOk |-> embOk, queryOk |-> queryOk,
         candidates |-> pre.ids,
         hits |-> IF embOk /\ queryOk THEN Query(coll, k) ELSE <<>>,
         raised |-> FALSE, result |-> res]

InitRetriever ==
    /\ pc = "retriever"
    /\ chunks = ChunkSet("list", 0)
    /\ candidates = <<>>
    /\ verified = PyList(<<>>)
    /\ report = <<>>
    /\ analyzerOut = Unset
    /\ composerInput = Unset
    /\ failure = NoFailure
    /\ respKind = [n \in Nodes |-> "none"]
    /\ log = <<>>
    /\ output = Unwritten
    /\ manifest = <<>>
    /\ collection = {}
    /\ lastRun = <<>>
    /\ entry = "none"
    /\ srcOut = NoSources
    /\ tried = <<>>
    /\ retrieval = NoRetrieval
    /\ chunking = NoChunking
    /\ analyzerIn = <<>>
    /\ pii = NoRedaction
    /\ parsing = NoParsing

RetrieveCall ==
    /\ pc = "retriever"
    /\ \E coll \in Collections, queryKw \in BOOLEAN, k \in TopKs,
          getOk \in BOOLEAN, embOk \in BOOLEAN, queryOk \in BOOLEAN :
         retrieval' = Retrieve(coll, queryKw, k, getOk, embOk, queryOk)
    /\ pc' = "retrieved"
    /\ UNCHANGED <<chunks, candidates, verified, report, analyzerOut,
                   composerInput, failure, respKind, log, output>>
    /\ UNCHANGED <<entryVars, storeVars, chunkerVars,
                 analyzerVars, piiVars, parserVars>>

NextRetriever == RetrieveCall

SpecRetriever == InitRetriever /\ [][NextRetriever]_vars

Ids(rs) == [i \in DOMAIN rs |-> rs[i].id]

\* C12: whenever the unrestricted nearest-neighbour query returned at least
\* one hit, retrieve returns a non-empty list.
C12_PrefilterNeverStarves ==
    (retrieval.called /\ retrieval.hits # <<>>) => retrieval.result # <<>>

\* C13: retrieve does not raise, and it returns an empty list when the keyword
\* scan, the query embedding or the index query failed.
C13_FailureGivesEmpty ==
    retrieval.called =>
        /\ ~retrieval.raised
        /\ (~retrieval.getOk \/ ~retrieval.embOk \/ ~retrieval.queryOk) =>
               retrieval.result = <<>>

\* C13 amended: retrieve does not raise; it returns an empty list when the
\* query embedding or the index query failed; when only the keyword scan
\* failed it returns the unrestricted hits of the index query, nearest first.
C13_SemanticFailureGivesEmpty ==
    retrieval.called =>
        /\ ~retrieval.raised
        /\ (~retrieval.embOk \/ ~retrieval.queryOk) => retrieval.result = <<>>
        /\ (~retrieval.getOk /\ retrieval.embOk /\ retrieval.queryOk) =>
               Ids(retrieval.result) = Ids(retrieval.hits)

C13_Witness ==
    /\ retrieval.called
    /\ ~retrieval.getOk /\ retrieval.embOk /\ retrieval.queryOk
    /\ Len(retrieval.result) >= 2

---------------------------------------------------------------------------
\* EmailChunker.create_chunks_from_thread (specification SpecChunker).
\* The input is the list split_into_sentences returns for the thread's text:
\* non-empty stripped strings, here named sentences with their length in
\* characters; distinct sequences of them are distinct texts.  A thread
\* without emails has no sentence, a thread with emails has at least the
\* sentence of its first header.  The thread comes from parse_email_thread,
\* which sets file_path to the path of the file it read and derives thread_id
\* from subject, participants, number of emails and path, not from the bodies:
\* an edit of a body leaves thread_id and file_path as they are.

Sentence(name, len) == [s |-> name, len |-> len]
Sentences == {Sentence("Ok.", 3), Sentence("We wait.", 8), Sentence("Payment blocked.", 16)}
SentenceLists == SeqsUpTo(Sentences, MaxUnits)
ChunkSizes == {4, 8}
ThreadId == "thread_1"
FilePath == "data/raw/email1.txt"

\* The original file when the chunker opens it: readable with its first
\* "From:" line at index from and lines lines in all (the four header lines
\* of the email, an empty line and one line of body follow the lines before
\* the first "From:"), missing (FileNotFoundError, caught) or unreadable
\* (another OSError or a decoding error, not caught).
FileStates ==
    {[state |-> "readable", from |-> f, lines |-> f + 6] : f \in {0, 2}}
    \cup {[state |-> "missing", from |-> 0, lines |-> 0],
          [state |-> "unreadable", from |-> 0, lines |-> 0]}

EstimateTokens(u) == u.len \div CharsPerToken

RECURSIVE SumTokens(_)
SumTokens(us) == IF us = <<>> THEN 0 ELSE EstimateTokens(Head(us)) + SumTokens(Tail(us))

RECURSIVE SumLen(_)
SumLen(us) == IF us = <<>> THEN 0 ELSE Head(us).len + SumLen(Tail(us))

\* len(' '.join(us))
JoinLen(us) == IF us = <<>> THEN 0 ELSE SumLen(us) + Len(us) - 1

Prefix(us, n) == SubSeq(us, 1, n)

\* email_line_mappings: one entry per email; the first has content_start 0 and
\* the start line of the first email boundary, 0 when there is no boundary.
LineMappings(sents, file) ==
    IF sents = <<>> THEN <<>>
    ELSE <<[start_line |-> IF file.state = "readable" THEN file.from ELSE 0,
            end_line |-> file.lines - 1,
            content_start |-> 0]>>

\* map_content_position_to_original_line
MapLine(mappings, pos) ==
    IF \E i \in DOMAIN mappings : pos >= mappings[i].content_start
    THEN LET i == CHOOSE k \in DOMAIN mappings :
                      /\ pos >= mappings[k].content_start
                      /\ \A j \in 1..(k - 1) : pos < mappings[j].content_start
         IN  mappings[i].start_line + (pos - mappings[i].content_start)
    ELSE 1

RECURSIVE SumStartPos(_, _)
\* sum(len(' '.join(sentences[:j])) + 1 for j in range(n))
SumStartPos(sents, n) ==
    IF n = 0 THEN 0
    ELSE SumStartPos(sents, n - 1) + JoinLen(Prefix(sents, n - 1)) + 1

\* n times len(' '.join(sentences[:len(sentences) - n])) + 1
FinalStartPos(sents, n) == n * (JoinLen(Prefix(sents, Len(sents) - n)) + 1)

\* f"{thread_id}_chunk_{len(chunks) + 1}"
ChunkId(threadId, n) == <<threadId, n>>

MakeChunk_EndFromLength(n, cur, tok, startPos, mappings) ==
    [id |-> ChunkId(ThreadId, n), units |-> cur, tokens |-> tok,
     file |-> FilePath,
     line_start |-> MapLine(mappings, startPos),
     line_end |-> MapLine(mappings, JoinLen(cur))]

\* Chunk(text=' '.join(current_chunk), chunk_id=..., file=file_path, ...)
MakeChunk(n, cur, tok, startPos, mappings) ==
    [id |-> ChunkId(ThreadId, n), units |-> cur, tokens |-> tok,
     file |-> FilePath,
     line_start |-> MapLine(mappings, startPos),
     line_end |-> MapLine(mappings, startPos + JoinLen(cur))]

Overlap_None(cur) == <<>>

\* current_chunk[-3:] if len(current_chunk) >= 3 else current_chunk
Overlap(cur) ==
    IF Len(cur) >= OverlapUnits
    THEN SubSeq(cur, Len(cur) - OverlapUnits + 1, Len(cur)) ELSE cur

Exceeds_Always(tok, t, size) == TRUE

\* current_tokens + sentence_tokens > self.chunk_size
Exceeds(tok, t, size) == tok + t > size

\* The loop over the sentences from index i on, and the final chunk.
RECURSIVE ChunkLoop(_, _, _, _, _, _, _)
ChunkLoop(sents, size, mappings, i, cur, tok, acc) ==
    IF i > Len(sents)
    THEN IF cur = <<>> THEN acc
         ELSE Append(acc, MakeChunk(Len(acc) + 1, cur, tok,
                                    FinalStartPos(sents, Len(cur)), mappings))
    ELSE LET t == EstimateTokens(sents[i]) IN
         IF Exceeds(tok, t, size) /\ cur # <<>>
         THEN LET next == Overlap(cur) \o <<sents[i]>> IN
              ChunkLoop(sents, size, mappings, i + 1, next, SumTokens(next),
                        Append(acc, MakeChunk(Len(acc) + 1, cur, tok,
                                              SumStartPos(sents, Len(cur)), mappings)))
         ELSE ChunkLoop(sents, size, mappings, i + 1, Append(cur, sents[i]), tok + t, acc)

CreateChunksFromThread(sents, size, file) ==
    IF file.state = "unreadable" THEN [raised |-> TRUE, chunks |-> <<>>]
    ELSE [raised |-> FALSE,
          chunks |-> ChunkLoop(sents, size, LineMappings(sents, file), 1, <<>>, 0, <<>>)]

InitChunker ==
    /\ pc = "chunker"
    /\ chunks = ChunkSet("list", 0)
    /\ candidates = <<>>
    /\ verified = PyList(<<>>)
    /\ report = <<>>
    /\ analyzerOut = Unset
    /\ composerInput = Unset
    /\ failure = NoFailure
    /\ respKind = [n \in Nodes |-> "none"]
    /\ log = <<>>
    /\ output = Unwritten
    /\ manifest = <<>>
    /\ collection = {}
    /\ lastRun = <<>>
    /\ entry = "none"
    /\ srcOut = NoSources
    /\ tried = <<>>
    /\ retrieval = NoRetrieval
    /\ chunking = NoChunking
    /\ analyzerIn = <<>>
    /\ pii = NoRedaction
    /\ parsing = NoParsing

ChunkingOf(run, sents, size, file, prev) ==
    LET res == CreateChunksFromThread(sents, size, file) IN
    [called |-> TRUE, run |-> run, sents |-> sents, size |-> size, file |-> file,
     raised |-> res.raised, chunks |-> res.chunks, prev |-> prev]

\* The ingestion run chunks the thread.
ChunkThread ==
    /\ pc = "chunker"
    /\ \E sents \in SentenceLists, size \in ChunkSizes, file \in FileStates :
         chunking' = ChunkingOf(1, sents, size, file, <<>>)
    /\ pc' = "chunked"
    /\ UNCHANGED <<chunks, candidates, verified, report, analyzerOut,
                   composerInput, failure, respKind, log, output>>
    /\ UNCHANGED <<entryVars, storeVars, retrieverVars,
                 analyzerVars, piiVars, parserVars>>

\* The next ingestion run chunks the same thread file again, its text as it
\* was or edited.
RechunkThread ==
    /\ pc = "chunked"
    /\ ~chunking.raised
    /\ \E sents \in SentenceLists :
         chunking' = ChunkingOf(2, sents, chunking.size, chunking.file, chunking.chunks)
    /\ pc' = "rechunked"
    /\ UNCHANGED <<chunks, candidates, verified, report, analyzerOut,
                   composerInput, failure, respKind, log, output>>
    /\ UNCHANGED <<entryVars, storeVars, retrieverVars,
                 analyzerVars, piiVars, parserVars>>

NextChunker == ChunkThread \/ RechunkThread

SpecChunker == InitChunker /\ [][NextChunker]_vars

Produced == IF chunking.called /\ ~chunking.raised THEN chunking.chunks ELSE <<>>

\* C16: across two runs on the same thread file, chunks with the same text
\* have the same id and chunks with the same id have the same text.
C16_IdFunctionOfText ==
    (chunking.called /\ chunking.run = 2 /\ ~chunking.raised) =>
        \A i \in DOMAIN chunking.chunks, j \in DOMAIN chunking.prev :
            LET c == chunking.chunks[i]
                d == chunking.prev[j]
            IN  (c.units = d.units) <=> (c.id = d.id)

\* C17: every chunk after the first begins with the last min(3, n) sentence
\* units of the chunk before it, n being that chunk's number of units, and
\* that is at least one unit.
C17_ChunkOverlap ==
    \A i \in DOMAIN Produced :
        i > 1 =>
            LET p == Produced[i - 1].units
                c == Produced[i].units
                k == Min(3, Len(p))
            IN  /\ k >= 1
                /\ Len(c) >= k
                /\ SubSeq(c, 1, k) = SubSeq(p, Len(p) - k + 1, Len(p))

C17_Witness ==
    /\ Len(Produced) >= 2
    /\ \E i \in DOMAIN Produced : i > 1 /\ Len(Produced[i - 1].units) >= 3
    /\ \E i \in DOMAIN Produced : i > 1 /\ Len(Produced[i - 1].units) < 3

MaxUnitTokens(us) == SetMax({EstimateTokens(us[i]) : i \in DOMAIN us})

\* C18: no chunk's token estimate exceeds chunk_size by more than the token
\* estimate of one sentence unit (taken as the largest unit of the chunk).
C18_BudgetBound ==
    \A i \in DOMAIN Produced :
        SumTokens(Produced[i].units) <=
            chunking.size + MaxUnitTokens(Produced[i].units)

\* C19: a thread without sentences gives no chunk; a thread whose sentence
\* units together do not exceed chunk_size gives exactly one chunk holding
\* all units in order; no chunk has an empty text.
C19_ShortThreadOneChunk ==
    (chunking.called /\ ~chunking.raised) =>
        /\ chunking.sents = <<>> => chunking.chunks = <<>>
        /\ (chunking.sents # <<>> /\ SumTokens(chunking.sents) <= chunking.size) =>
               /\ Len(chunking.chunks) = 1
               /\ chunking.chunks[1].units = chunking.sents
        /\ \A i \in DOMAIN chunking.chunks :
               /\ chunking.chunks[i].units # <<>>
               /\ JoinLen(chunking.chunks[i].units) >= 1

C19_Witness ==
    /\ chunking.called /\ ~chunking.raised
    /\ Len(chunking.sents) >= 3
    /\ SumTokens(chunking.sents) > 0
    /\ SumTokens(chunking.sents) <= chunking.size
    /\ Len(chunking.chunks) = 1

\* C20: every chunk has a non-empty file and line_end >= line_start, whether
\* the original file was read or not found.
C20_CitationNonEmpty ==
    \A i \in DOMAIN Produced :
        /\ Produced[i].file # ""
        /\ Produced[i].line_end >= Produced[i].line_start

C20_Witness ==
    /\ chunking.called
    /\ chunking.file.state = "missing"
    /\ Len(Produced) >= 2
    /\ Produced[2].line_start > 0

\* C29: when the source file is readable, every chunk is cited with a line
\* range inside the From:-delimited line range of the email its content comes
\* from, and line_end does not exceed the number of lines of the file.
C29_CitationInsideEmail ==
    (chunking.called /\ ~chunking.raised /\ chunking.file.state = "readable") =>
        \A i \in DOMAIN chunking.chunks :
            LET c == chunking.chunks[i]
                m == LineMappings(chunking.sents, chunking.file)[1]
            IN  /\ c.line_start >= m.start_line
                /\ c.line_end <= m.end_line + 1
                /\ c.line_end <= chunking.file.lines

---------------------------------------------------------------------------
\* C26: a run of the graph.py entry point on a non-empty chunk list does not
\* fail in a stage's prompt building: when such a run has failed, the failing
\* stage failed in its external call.
C26_NoPromptFailure ==
    (entry = "graph_main" /\ chunks.kind = "list" /\ chunks.n > 0 /\ pc = "failed") =>
        failure.cause # "prompt"

\* C28: after incremental reindex runs every chunk id of the most recent
\* run's chunk set is stored in the collection, and every id the manifest
\* holds a hash for is stored with content of that hash.
C28_StoreManifestConsistent ==
    lastRun.ran =>
        /\ \A id \in DOMAIN lastRun.file : EntriesOf(collection, id) # {}
        /\ \A id \in DOMAIN manifest :
               \E e \in EntriesOf(collection, id) :
                   ChunkHash([text |-> e.text, meta |-> e.meta]) = manifest[id]

\* C30: keyword_prefilter returns the id of a chunk only if the chunk's text
\* contains a prefilter keyword or a term of the query.
C30_PrefilterOnlyMatchingChunks ==
    retrieval.called =>
        \A id \in retrieval.candidates :
            retrieval.coll[id].qt \/ retrieval.coll[id].kw

---------------------------------------------------------------------------
\* The analyzer node of the compiled graph run on a prepared state.  The
\* configuration handed to get_analyzer_prompt is the AppConfig that
\* get_config() returns, or a mapping: tests/test_agents.py replaces the
\* prompt builder, so that the agent gets past it whatever the configuration.

ConfigKinds == {"AppConfig", "dict"}

InitAnalyzer ==
    /\ pc = "call_analyzer"
    /\ chunks \in {ChunkSet("list", n) : n \in 0..MaxChunks}
    /\ candidates = <<>>
    /\ verified = PyList(<<>>)
    /\ report = <<>>
    /\ analyzerOut = Unset
    /\ composerInput = Unset
    /\ failure = NoFailure
    /\ respKind = [n \in Nodes |-> "none"]
    /\ log = <<>>
    /\ output = Unwritten
    /\ manifest = <<>>
    /\ collection = {}
    /\ lastRun = <<>>
    /\ entry = "none"
    /\ srcOut = NoSources
    /\ tried = <<>>
    /\ retrieval = NoRetrieval
    /\ chunking = NoChunking
    /\ analyzerIn = <<>>
    /\ pii = NoRedaction
    /\ parsing = NoParsing

\* The node calls analyzer_agent(state); the graph then merges the returned
\* mapping into the state, channel by channel.
CallAnalyzer ==
    /\ pc = "call_analyzer"
    /\ \E cfg \in ConfigKinds, llm \in LLMOutcomes(CandidatePool) :
         LET res == AnalyzerAgent(chunks, cfg, llm) IN
         /\ Advance("analyzer", res)
         /\ analyzerOut' = IF res.raised THEN analyzerOut ELSE res.ret
         /\ analyzerIn' = IF res.raised \/ res.got = "none" THEN <<>>
                          ELSE AnalyzerItems(llm.resp)
         /\ candidates' = IF ~res.raised /\ Written("analyzer", "candidates")
                          THEN res.ret.v ELSE candidates
    /\ UNCHANGED <<chunks, verified, report, composerInput, output>>
    /\ UNCHANGED <<entryVars, storeVars, retrieverVars, chunkerVars, piiVars, parserVars>>

NextAnalyzer == CallAnalyzer

SpecAnalyzer == InitAnalyzer /\ [][NextAnalyzer]_vars

TitleKey(it) == <<it.thread_id, NormTitle(it.title)>>

\* The items of a response that no earlier item of the response shares its
\* thread_id and trimmed, lower-cased title with, in response order.
RECURSIVE FirstOfEachKey(_, _)
FirstOfEachKey(items, n) ==
    IF n = 0 THEN <<>>
    ELSE LET before == FirstOfEachKey(items, n - 1) IN
         IF \E j \in 1..(n - 1) : TitleKey(items[j]) = TitleKey(items[n])
         THEN before ELSE Append(before, items[n])

\* C21: no two candidates of the analyzer's output have the same thread_id
\* and the same trimmed, lower-cased title; the output is the response's items
\* with only the first of each such key kept, in response order.
C21_DedupKeepsFirst ==
    IsList(analyzerOut) =>
        /\ \A i, j \in DOMAIN analyzerOut.v :
               TitleKey(analyzerOut.v[i]) = TitleKey(analyzerOut.v[j]) => i = j
        /\ analyzerOut.v = FirstOfEachKey(analyzerIn, Len(analyzerIn))

C21_Witness ==
    /\ IsList(analyzerOut)
    /\ Len(analyzerIn) = 2
    /\ analyzerIn[1].title # analyzerIn[2].title
    /\ analyzerIn[1].confidence # analyzerIn[2].confidence
    /\ analyzerOut.v = <<analyzerIn[1]>>

---------------------------------------------------------------------------
\* PIIRedactor (src/ingestion/pii.py), its methods called on prepared inputs
\* (specification SpecPII).

\* A text is a sequence of words, the whitespace between them left out; a
\* word is a sequence of symbols, each a single character or a run of
\* characters that one pattern matches as a whole and no other pattern
\* matches any part of.  The words hold no digit, "@" or "http" outside such
\* a run, so that the id, card, IP and URL patterns match nothing in them.
EmailRun == "jane@co.com"
PhoneRun == "+36301234567"
Sentinel(kind) ==
    CASE kind = "EMAIL" -> <<"[", "E", "M", "A", "I", "L", "]">>
      [] kind = "PHONE" -> <<"[", "P", "H", "O", "N", "E", "]">>
      [] kind = "NAME" -> <<"[", "N", "A", "M", "E", "]">>
Words ==
    {<<EmailRun>>, <<PhoneRun>>, <<"B", "o">>, <<"B", "o", "b">>, <<"A", "M", "E">>,
     <<"N", "A", "M", "E">>, <<"o", "k">>, Sentinel("NAME")}
Texts == SeqsUpTo(Words, MaxWords)

\* known_people: email -> {person_id, name}; names are single words.
Person(email, name, id) == [email |-> email, name |-> name, person_id |-> id]
Registries ==
    {{}, {Person("a@x.com", <<"B", "o">>, "P1")},
     {Person("a@x.com", <<"A", "M", "E">>, "P1")}}

\* pattern.sub(sentinel, word) for a pattern that matches the run and nothing else
RECURSIVE SubRun(_, _, _)
SubRun(run, kind, word) ==
    IF word = <<>> THEN <<>>
    ELSE (IF Head(word) = run THEN Sentinel(kind) ELSE <<Head(word)>>)
         \o SubRun(run, kind, Tail(word))

\* The alternatives of _known_names_regex: every full name, the longest
\* first, then every token of three characters or more of a name; with
\* single-word names the tokens are among the full names.
KnownNames(known) == {q.name : q \in known}
MatchLen(known, word) ==
    LET ls == {Len(n) : n \in {m \in KnownNames(known) :
                                  /\ Len(m) >= 1
                                  /\ Len(word) >= Len(m)
                                  /\ SubSeq(word, 1, Len(m)) = m}}
    IN  IF ls = {} THEN 0 ELSE CHOOSE l \in ls : \A k \in ls : k <= l

\* _known_names_regex.sub("[NAME]", word): leftmost matches, not overlapping
RECURSIVE SubNames(_, _)
SubNames(known, word) ==
    IF word = <<>> THEN <<>>
    ELSE LET l == MatchLen(known, word) IN
         IF l > 0 THEN Sentinel("NAME") \o SubNames(known, SubSeq(word, l + 1, Len(word)))
         ELSE <<Head(word)>> \o SubNames(known, Tail(word))

\* PIIRedactor(known).redact_text(text)
RedactTextKnown(known, text) ==
    IF text = <<>> THEN text
    ELSE [i \in DOMAIN text |->
            LET emails == SubRun(EmailRun, "EMAIL", text[i])
                phones == SubRun(PhoneRun, "PHONE", emails)
            IN  IF KnownNames(known) = {} THEN phones ELSE SubNames(known, phones)]

\* The email record parse_single_email builds: its recipient lists hold
\* references to recipient mappings, the mappings live in the heap.
Recipient(name, email) == [name |-> name, email |-> email, person_id |-> "absent"]
Recipients == {Recipient("Anna", e) : e \in {"a@x.com", "b@y.com"}}
RecipientLists == SeqsUpTo(Recipients, MaxRecipients)
EmailData(sender, nTo, nCc, body) ==
    [sender_email |-> sender, sender_name |-> "Peter", sender_person_id |-> "absent",
     to_recipients |-> [i \in 1..nTo |-> i],
     cc_recipients |-> [i \in 1..nCc |-> nTo + i],
     subject |-> <<<<"o", "k">>>>, canonical_subject |-> <<<<"o", "k">>>>,
     body |-> body]

PersonOf(known, email) == CHOOSE q \in known : q.email = email
IsKnown(known, email) == \E q \in known : q.email = email

\* The body of the loops over to_recipients and cc_recipients: the mapping is
\* updated in place.
RedactRecipient(known, r) ==
    IF IsKnown(known, r.email)
    THEN [name |-> PersonOf(known, r.email).person_id, email |-> "[EMAIL]",
          person_id |-> PersonOf(known, r.email).person_id]
    ELSE [name |-> "[NAME]", email |-> "[EMAIL]", person_id |-> r.person_id]

\* redact_email_data: email_data.copy() copies the record and shares the
\* lists and the mappings they refer to.
RedactEmailData(known, data, heap) ==
    LET knownSender == IsKnown(known, data.sender_email)
        pid == IF knownSender THEN PersonOf(known, data.sender_email).person_id
               ELSE "[PERSON]"
        refs == {data.to_recipients[i] : i \in DOMAIN data.to_recipients}
                \cup {data.cc_recipients[i] : i \in DOMAIN data.cc_recipients}
    IN  [returned |->
            [data EXCEPT !.sender_email = "[EMAIL]",
                         !.sender_name = IF knownSender THEN pid ELSE "[NAME]",
                         !.sender_person_id = pid,
                         !.subject = RedactTextKnown(known, data.subject),
                         !.canonical_subject = RedactTextKnown(known, data.canonical_subject),
                         !.body = RedactTextKnown(known, data.body)],
         heap |-> [ref \in DOMAIN heap |->
                      IF ref \in refs THEN RedactRecipient(known, heap[ref])
                      ELSE heap[ref]]]

\* What a reader of the record sees: the lists with their mappings.
View(data, heap) ==
    [data EXCEPT !.to_recipients = [i \in DOMAIN data.to_recipients |->
                                       heap[data.to_recipients[i]]],
                 !.cc_recipients = [i \in DOMAIN data.cc_recipients |->
                                       heap[data.cc_recipients[i]]]]

InitPII ==
    /\ pc = "pii"
    /\ chunks = ChunkSet("list", 0)
    /\ candidates = <<>>
    /\ verified = PyList(<<>>)
    /\ report = <<>>
    /\ analyzerOut = Unset
    /\ composerInput = Unset
    /\ failure = NoFailure
    /\ respKind = [n \in Nodes |-> "none"]
    /\ log = <<>>
    /\ output = Unwritten
    /\ manifest = <<>>
    /\ collection = {}
    /\ lastRun = <<>>
    /\ entry = "none"
    /\ srcOut = NoSources
    /\ tried = <<>>
    /\ retrieval = NoRetrieval
    /\ chunking = NoChunking
    /\ analyzerIn = <<>>
    /\ pii = NoRedaction
    /\ parsing = NoParsing

\* redact_text is called, and called again on its own result.
RedactTextCall ==
    /\ pc = "pii"
    /\ \E known \in Registries, text \in Texts :
         LET once == RedactTextKnown(known, text) IN
         pii' = [called |-> TRUE, op |-> "redact_text", known |-> known,
                 text |-> text, once |-> once,
                 twice |-> RedactTextKnown(known, once)]
    /\ pc' = "redacted_text"
    /\ UNCHANGED <<chunks, candidates, verified, report, analyzerOut,
                   composerInput, failure, respKind, log, output>>
    /\ UNCHANGED <<entryVars, storeVars, retrieverVars, chunkerVars,
                   analyzerVars, parserVars>>

\* redact_email_data is called on an email record.
RedactEmailDataCall ==
    /\ pc = "pii"
    /\ \E known \in Registries, sender \in {"a@x.com", "b@y.com"},
          to \in RecipientLists, cc \in RecipientLists, body \in SeqsUpTo(Words, 1) :
         LET data == EmailData(sender, Len(to), Len(cc), body)
             heap == to \o cc
             res == RedactEmailData(known, data, heap)
         IN  pii' = [called |-> TRUE, op |-> "redact_email_data", known |-> known,
                     before |-> View(data, heap),
                     after |-> View(data, res.heap),
                     returned |-> View(res.returned, res.heap)]
    /\ pc' = "redacted_email"
    /\ UNCHANGED <<chunks, candidates, verified, report, analyzerOut,
                   composerInput, failure, respKind, log, output>>
    /\ UNCHANGED <<entryVars, storeVars, retrieverVars, chunkerVars,
                   analyzerVars, parserVars>>

NextPII == RedactTextCall \/ RedactEmailDataCall

SpecPII == InitPII /\ [][NextPII]_vars

\* C22: after redact_email_data the record passed in, with every recipient
\* mapping of its to_recipients and cc_recipients lists, is what it was before
\* the call.
C22_InputNotMutated ==
    (pii.called /\ pii.op = "redact_email_data") => pii.after = pii.before

\* C23: redact_text applied to its own result gives that result again, for
\* every text and every registry of known people.
C23_RedactTextIdempotent ==
    (pii.called /\ pii.op = "redact_text") => pii.twice = pii.once

---------------------------------------------------------------------------
\* The parser (src/ingestion/parser.py), its functions called on prepared
\* inputs (specification SpecParser).

\* A date string, by what the parsers make of it: whether
\* email.utils.parsedate_to_datetime accepts it, and for each of the three
\* fallback patterns whether re.search finds it and, if so, whether strptime
\* accepts the text found ("2024.13.45 25:61" is found and refused).
DateStrings ==
    [raw : {"d1", "d2"}, rfc : BOOLEAN, pats : [1..3 -> {"nomatch", "valid", "invalid"}]]
Iso(d, how) == <<"iso", d.raw, how>>
Epoch(d, how) == <<"epoch", d.raw, how>>
DateResult(nd, ep) == [raised |-> FALSE, normalized_date |-> nd, epoch_timestamp |-> ep]

\* The fallback loop: the first pattern found decides; strptime raising ends
\* the loop.
FirstHit(d) ==
    IF \A i \in 1..3 : d.pats[i] = "nomatch" THEN 0
    ELSE CHOOSE i \in 1..3 :
             d.pats[i] # "nomatch" /\ \A j \in 1..(i - 1) : d.pats[j] = "nomatch"

NormalizeDate_NoInnerTry(d) ==
    IF d.rfc THEN DateResult(Iso(d, "rfc"), Epoch(d, "rfc"))
    ELSE LET i == FirstHit(d) IN
         IF i = 0 THEN DateResult(d.raw, PyNone)
         ELSE IF d.pats[i] = "valid" THEN DateResult(Iso(d, i), Epoch(d, i))
         ELSE [raised |-> TRUE, normalized_date |-> PyNone, epoch_timestamp |-> PyNone]
NormalizeDate(d) ==
    IF d.rfc THEN DateResult(Iso(d, "rfc"), Epoch(d, "rfc"))
    ELSE LET i == FirstHit(d) IN
         IF i # 0 /\ d.pats[i] = "valid" THEN DateResult(Iso(d, i), Epoch(d, i))
         ELSE DateResult(d.raw, PyNone)      \* except Exception: pass

\* An email of a transcript, by the notation of its From line; a transcript
\* file that cannot be read or decoded, or its emails.
FromNotations == {"angle", "paren", "space"}
EmailTexts == [from : FromNotations \cup {"none"}]
TranscriptFiles ==
    {[state |-> "unreadable", emails |-> <<>>]}
    \cup {[state |-> "readable", emails |-> es] : es \in SeqsUpTo(EmailTexts, MaxEmails)}
InputDirs == SeqsUpTo(TranscriptFiles, MaxFiles)

\* parse_single_email: None when the From line matches none of the notations
ParseSingleEmail(e) ==
    IF e.from \in FromNotations THEN [t |-> "dict", from |-> e.from] ELSE PyNone

\* the loop over email_matches: emails that parse are kept with their index
RECURSIVE ParseEmails(_, _)
ParseEmails(es, n) ==
    IF n = 0 THEN <<>>
    ELSE LET before == ParseEmails(es, n - 1)
             data == ParseSingleEmail(es[n])
         IN  IF data = PyNone THEN before
             ELSE Append(before, [from |-> data.from, email_index |-> n - 1])

\* parse_email_thread: {} when reading the file raises
EmptyDict == [t |-> "dict", empty |-> TRUE]
ParseEmailThread_AllOrNothing(path, file) ==
    IF file.state = "unreadable" THEN EmptyDict
    ELSE IF \E i \in DOMAIN file.emails : ParseSingleEmail(file.emails[i]) = PyNone
         THEN EmptyDict
    ELSE LET emails == ParseEmails(file.emails, Len(file.emails)) IN
         [t |-> "dict", empty |-> FALSE, file_path |-> path,
          total_emails |-> Len(emails), emails |-> emails]
ParseEmailThread(path, file) ==
    IF file.state = "unreadable" THEN EmptyDict
    ELSE LET emails == ParseEmails(file.emails, Len(file.emails)) IN
         [t |-> "dict", empty |-> FALSE, file_path |-> path,
          total_emails |-> Len(emails), emails |-> emails]

\* the loop over sorted(email_files): threads that are not empty are kept
RECURSIVE ParseThreads(_, _)
ParseThreads(dir, n) ==
    IF n = 0 THEN <<>>
    ELSE LET before == ParseThreads(dir, n - 1)
             thread == ParseEmailThread(n, dir[n])
         IN  IF thread.empty THEN before ELSE Append(before, thread)

\* process_email_data: without Colleagues.txt it returns before parsing; else
\* it writes email_threads.json, hands the threads kept to create_chunks, which
\* opens the file of each again and lets every error but FileNotFoundError
\* through, and writes chunks.json and summary.json.
ProcessEmailData(colleagues, dir) ==
    IF ~colleagues THEN [raised |-> FALSE, written |-> {}, threads |-> <<>>]
    ELSE LET threads == ParseThreads(dir, Len(dir))
             chunkerRaises == \E i \in DOMAIN threads :
                                  dir[threads[i].file_path].state = "unreadable"
         IN  [raised |-> chunkerRaises,
              written |-> IF chunkerRaises THEN {"colleagues.json", "email_threads.json"}
                          ELSE {"colleagues.json", "email_threads.json",
                                "chunks.json", "summary.json"},
              threads |-> threads]

InitParser ==
    /\ pc = "parser"
    /\ chunks = ChunkSet("list", 0)
    /\ candidates = <<>>
    /\ verified = PyList(<<>>)
    /\ report = <<>>
    /\ analyzerOut = Unset
    /\ composerInput = Unset
    /\ failure = NoFailure
    /\ respKind = [n \in Nodes |-> "none"]
    /\ log = <<>>
    /\ output = Unwritten
    /\ manifest = <<>>
    /\ collection = {}
    /\ lastRun = <<>>
    /\ entry = "none"
    /\ srcOut = NoSources
    /\ tried = <<>>
    /\ retrieval = NoRetrieval
    /\ chunking = NoChunking
    /\ analyzerIn = <<>>
    /\ pii = NoRedaction
    /\ parsing = NoParsing

NormalizeDateCall ==
    /\ pc = "parser"
    /\ \E d \in DateStrings :
         parsing' = [called |-> TRUE, op |-> "normalize_date", date |-> d,
                     result |-> NormalizeDate(d)]
    /\ pc' = "normalized"
    /\ UNCHANGED <<chunks, candidates, verified, report, analyzerOut,
                   composerInput, failure, respKind, log, output>>
    /\ UNCHANGED <<entryVars, storeVars, retrieverVars, chunkerVars,
                   analyzerVars, piiVars>>

ProcessEmailDataCall ==
    /\ pc = "parser"
    /\ \E colleagues \in BOOLEAN, dir \in InputDirs :
         parsing' = [called |-> TRUE, op |-> "process_email_data",
                     colleagues |-> colleagues, dir |-> dir,
                     result |-> ProcessEmailData(colleagues, dir)]
    /\ pc' = "processed"
    /\ UNCHANGED <<chunks, candidates, verified, report, analyzerOut,
                   composerInput, failure, respKind, log, output>>
    /\ UNCHANGED <<entryVars, storeVars, retrieverVars, chunkerVars,
                   analyzerVars, piiVars>>

NextParser == NormalizeDateCall \/ ProcessEmailDataCall

SpecParser == InitParser /\ [][NextParser]_vars

\* The indices, counted from 0, of the emails of a transcript whose From line
\* is in one of the accepted notations.
Parseable(file) == {i - 1 : i \in {k \in DOMAIN file.emails : file.emails[k].from # "none"}}
Readable(dir) == {n \in DOMAIN dir : dir[n].state = "readable"}

\* C24: process_email_data does not raise on parse errors; the threads it
\* writes are the readable transcripts in directory order, and the emails of
\* each are the emails of the transcript whose From line parses, in their
\* original order.
C24_ParseErrorsNotFatal ==
    (parsing.called /\ parsing.op = "process_email_data" /\ parsing.colleagues) =>
        LET ths == parsing.result.threads
            dir == parsing.dir
        IN  /\ ~parsing.result.raised
            /\ {"email_threads.json", "chunks.json", "summary.json"}
                   \subseteq parsing.result.written
            /\ {ths[i].file_path : i \in DOMAIN ths} = Readable(dir)
            /\ \A i, j \in DOMAIN ths : i < j => ths[i].file_path < ths[j].file_path
            /\ \A i \in DOMAIN ths :
                 LET es == ths[i].emails IN
                 /\ {es[k].email_index : k \in DOMAIN es} = Parseable(dir[ths[i].file_path])
                 /\ \A k, l \in DOMAIN es : k < l => es[k].email_index < es[l].email_index
                 /\ \A k \in DOMAIN es :
                        es[k].from = dir[ths[i].file_path].emails[es[k].email_index + 1].from

C24_Witness ==
    /\ parsing.called /\ parsing.op = "process_email_data" /\ parsing.colleagues
    /\ Len(parsing.dir) = 2
    /\ parsing.dir[1].state = "unreadable"
    /\ parsing.dir[2].state = "readable"
    /\ Len(parsing.dir[2].emails) = 2
    /\ parsing.dir[2].emails[1].from = "none"
    /\ Len(parsing.result.threads) = 1
    /\ Len(parsing.result.threads[1].emails) = 1
    /\ parsing.result.threads[1].emails[1].email_index = 1

\* C25: normalize_date does not raise; for a string that none of the
\* supported formats accepts it returns the string itself as normalized_date
\* and None as epoch_timestamp.
C25_NormalizeDateNeverRaises ==
    (parsing.called /\ parsing.op = "normalize_date") =>
        /\ ~parsing.result.raised
        /\ (~parsing.date.rfc /\ \A i \in 1..3 : parsing.date.pats[i] # "valid") =>
               /\ parsing.result.normalized_date = parsing.date.raw
               /\ parsing.result.epoch_timestamp = PyNone

C25_Witness ==
    /\ parsing.called /\ parsing.op = "normalize_date"
    /\ ~parsing.date.rfc
    /\ parsing.date.pats[1] = "nomatch"
    /\ parsing.date.pats[2] = "invalid"
    /\ parsing.result.normalized_date = parsing.date.raw
    /\ parsing.result.epoch_timestamp = PyNone

====
